---- MODULE Spec2Model ----
(***************************************************************************)
(* Model of the two scripts of the repository:                             *)
(*   - extract_context.py (the File Collector): main() and                 *)
(*     copy_with_structure(), with the pathlib / shutil calls they make,   *)
(*     over a small filesystem;                                            *)
(*   - packages/backend/check-fights.py (the Fight Status Reporter): the   *)
(*     eight print statements of the module, over a fights array.          *)
(* SpecFC is the File Collector, SpecFR the Fight Status Reporter.         *)
(***************************************************************************)
EXTENDS Integers, Sequences, FiniteSets, TLC

VARIABLES
    fs,       \* the filesystem: path -> node
    fs0,      \* the filesystem when the current run of main() began
    sources,  \* main()'s list of sources
    pc,       \* where main() is: "start", "loop", "done", "error"
    i,        \* number of sources the for loop has finished
    out,      \* standard output of the current run of main()
    err,      \* the exception that ended the run, "none" if none
    run,      \* 1 in the first invocation of the script, 2 in the second
    fights,   \* response['fights'] of check-fights.py
    rpc,      \* the statement check-fights.py is at
    k,        \* number of main-card records the for loop has finished
    rout,     \* standard output of check-fights.py
    rerr      \* the exception that ended check-fights.py, "none" if none

fcvars == <<fs, fs0, sources, pc, i, out, err, run>>
frvars == <<fights, rpc, k, rout, rerr>>
vars == <<fs, fs0, sources, pc, i, out, err, run, fights, rpc, k, rout, rerr>>

(***************************************************************************)
(* Bounds.                                                                 *)
(***************************************************************************)
MaxSources == 2
MaxFights == 7

(***************************************************************************)
(* Paths and nodes.  A path is a sequence of names.  A node is "absent",   *)
(* "dir", "other" (exists, but neither a directory nor a regular file) or  *)
(* the content, with its metadata, of a regular file ("f1f1" is a file    *)
(* written onto a file it already held).                                   *)
(***************************************************************************)
project_root == <<"proj">>
dest_root == <<"dest">>

Contents == {"f0", "f1", "f1f1"}
Nodes == {"absent", "dir", "other"} \cup Contents

SrcPaths ==
    { <<"proj">>, <<"proj", "a">>, <<"proj", "a", "a">>, <<"proj", "a", "b">>,
      <<"proj", "b">> }
DestPaths ==
    { <<"dest">>, <<"dest", "a">>, <<"dest", "a", "a">>,
      <<"dest", "a", "a", "a">>, <<"dest", "a", "b">>, <<"dest", "b">>,
      <<"dest", "b", "b">> }
ExtPaths == { <<"ext">> }
Paths == SrcPaths \cup DestPaths \cup ExtPaths

Parent(p) == SubSeq(p, 1, Len(p) - 1)
Name(p) == p[Len(p)]

\* every entry of the tree lies in a directory
WellFormed(f) ==
    \A p \in DOMAIN f : (Len(p) > 1 /\ f[p] # "absent") => f[Parent(p)] = "dir"

\* the project tree: its regular files hold "f1"
SrcTrees ==
    { f \in [SrcPaths -> {"absent", "dir", "other", "f1"}] :
        /\ WellFormed(f)
        /\ f[<<"proj">>] = "dir"
        /\ f[<<"proj", "a">>] # "other"
        /\ f[<<"proj", "a", "a">>] # "other"
        /\ f[<<"proj", "a", "b">>] \in {"absent", "f1"}
        /\ f[<<"proj", "b">>] # "dir" }

\* what the destination holds before the first run: its regular files hold "f0"
DestTrees ==
    { f \in [DestPaths -> {"absent", "dir", "f0"}] :
        /\ WellFormed(f)
        /\ f[<<"dest", "a", "b">>] # "dir"
        /\ f[<<"dest", "a", "a", "a">>] # "dir" }

ExtTrees == [ExtPaths -> {"absent", "f1"}]

\* the paths main() may list
Candidates ==
    { <<"proj", "a">>, <<"proj", "a", "a">>, <<"proj", "a", "b">>,
      <<"proj", "b">>, <<"ext">> }

RECURSIVE SeqsUpTo(_, _)
SeqsUpTo(S, n) ==
    IF n = 0 THEN { <<>> }
    ELSE LET shorter == SeqsUpTo(S, n - 1)
         IN shorter \cup { Append(s, x) : s \in shorter, x \in S }

\* main()'s list names every path once
SourceLists ==
    { s \in SeqsUpTo(Candidates, MaxSources) :
        \A a, b \in 1..Len(s) : a # b => s[a] # s[b] }

(***************************************************************************)
(* pathlib and shutil, as far as the script uses them.  An operation       *)
(* returns the filesystem it leaves and the exception it raises.           *)
(***************************************************************************)
Ok(f) == [f |-> f, err |-> "none"]
Raise(f, e) == [f |-> f, err |-> e]

exists(f, p) == f[p] # "absent"
is_dir(f, p) == f[p] = "dir"
is_file(f, p) == f[p] \in Contents

IsPrefix(r, p) == Len(r) <= Len(p) /\ SubSeq(p, 1, Len(r)) = r

\* Path.relative_to: the path below rel_root, or ValueError
relative_to(p, rel_root) ==
    IF IsPrefix(rel_root, p)
    THEN [rel |-> SubSeq(p, Len(rel_root) + 1, Len(p)), err |-> "none"]
    ELSE [rel |-> <<>>, err |-> "ValueError"]

\* Path.mkdir(parents=True, exist_ok=True) and os.makedirs(exist_ok=True)
RECURSIVE mkdir(_, _)
mkdir(f, p) ==
    IF p = <<>> \/ f[p] = "dir" THEN Ok(f)
    ELSE IF f[p] # "absent" THEN Raise(f, "FileExistsError")
    ELSE LET up == mkdir(f, Parent(p))
         IN IF up.err # "none" THEN Raise(f, "NotADirectoryError")
            ELSE Ok([up.f EXCEPT ![p] = "dir"])

\* mutant of copyfile: dst is opened for appending
copyfile_append(f, src, dst) ==
    IF f[dst] = "dir" THEN Raise(f, "IsADirectoryError")
    ELSE IF Len(dst) > 1 /\ f[Parent(dst)] # "dir" THEN Raise(f, "FileNotFoundError")
    ELSE Ok([f EXCEPT ![dst] = IF f[dst] \in Contents THEN "f1f1" ELSE f[src]])

\* shutil.copyfile: write the content of src to dst
copyfile(f, src, dst) ==
    IF f[dst] = "dir" THEN Raise(f, "IsADirectoryError")
    ELSE IF Len(dst) > 1 /\ f[Parent(dst)] # "dir" THEN Raise(f, "FileNotFoundError")
    ELSE Ok([f EXCEPT ![dst] = f[src]])

\* shutil.copy2: a dst that is a directory receives the file under its own name
copy2(f, src, dst) ==
    copyfile(f, src, IF is_dir(f, dst) THEN dst \o <<Name(src)>> ELSE dst)

listdir(f, d) == { p \in DOMAIN f : Len(p) = Len(d) + 1 /\ IsPrefix(d, p) /\ exists(f, p) }

\* shutil.copytree(src, dst, dirs_exist_ok=True): make dst, copy every entry,
\* going on after an entry that fails, and raise Error at the end if one did
RECURSIVE copytree(_, _, _)
RECURSIVE copyentries(_, _, _, _)
copyentries(f, entries, dst, failed) ==
    IF entries = {} THEN IF failed THEN Raise(f, "Error") ELSE Ok(f)
    ELSE LET e == CHOOSE x \in entries : TRUE
             r == IF is_dir(f, e) THEN copytree(f, e, dst \o <<Name(e)>>)
                  ELSE copy2(f, e, dst \o <<Name(e)>>)
         IN copyentries(r.f, entries \ {e}, dst, failed \/ r.err # "none")

copytree(f, src, dst) ==
    LET made == mkdir(f, dst)
    IN IF made.err # "none" THEN made
       ELSE copyentries(made.f, listdir(f, src), dst, FALSE)

(***************************************************************************)
(* extract_context.py                                                      *)
(***************************************************************************)
\* mutant of copy_with_structure: a source outside rel_root is passed over
copy_with_structure_lenient(f, src, dest, rel_root) ==
    LET rel == relative_to(src, rel_root)
        dest_path == dest \o rel.rel
    IN IF rel.err # "none" THEN Ok(f)
       ELSE IF is_dir(f, src) THEN copytree(f, src, dest_path)
       ELSE IF is_file(f, src)
            THEN LET made == mkdir(f, Parent(dest_path))
                 IN IF made.err # "none" THEN made
                    ELSE copy2(made.f, src, dest_path)
       ELSE Ok(f)

copy_with_structure(f, src, dest, rel_root) ==
    LET rel == relative_to(src, rel_root)
        dest_path == dest \o rel.rel
    IN IF rel.err # "none" THEN Raise(f, rel.err)
       ELSE IF is_dir(f, src) THEN copytree(f, src, dest_path)
       ELSE IF is_file(f, src)
            THEN LET made == mkdir(f, Parent(dest_path))
                 IN IF made.err # "none" THEN made
                    ELSE copy2(made.f, src, dest_path)
       ELSE Ok(f)

Copied(p) == [kind |-> "copied", path |-> p]
Skipped(p) == [kind |-> "skipped", path |-> p]
AllDone(p) == [kind |-> "done", path |-> p]

InitFR0 == fights = <<>> /\ rpc = "idle" /\ k = 0 /\ rout = <<>> /\ rerr = "none"

InitFC ==
    /\ \E s \in SrcTrees, d \in DestTrees, e \in ExtTrees :
           /\ fs = s @@ d @@ e
           /\ fs0 = s @@ d @@ e
    /\ sources \in SourceLists
    /\ pc = "start"
    /\ i = 0
    /\ out = <<>>
    /\ err = "none"
    /\ run = 1
    /\ InitFR0

\* line 26: dest_root.mkdir(parents=True, exist_ok=True)
EnsureDest ==
    /\ pc = "start"
    /\ LET made == mkdir(fs, dest_root)
       IN /\ fs' = made.f
          /\ err' = made.err
          /\ pc' = IF made.err = "none" THEN "loop" ELSE "error"
    /\ UNCHANGED <<fs0, sources, i, out, run>>
    /\ UNCHANGED frvars

\* mutant of ProcessSource: a missing source ends the run
ProcessSourceStrict ==
    /\ pc = "loop"
    /\ i < Len(sources)
    /\ LET src == sources[i + 1]
           r == IF exists(fs, src)
                THEN copy_with_structure(fs, src, dest_root, project_root)
                ELSE Raise(fs, "FileNotFoundError")
       IN /\ fs' = r.f
          /\ err' = r.err
          /\ IF r.err = "none"
             THEN /\ out' = Append(out, Copied(src))
                  /\ i' = i + 1
                  /\ pc' = "loop"
             ELSE /\ pc' = "error"
                  /\ UNCHANGED <<out, i>>
    /\ UNCHANGED <<fs0, sources, run>>
    /\ UNCHANGED frvars

\* lines 40-45: one iteration of the for loop
ProcessSource ==
    /\ pc = "loop"
    /\ i < Len(sources)
    /\ LET src == sources[i + 1]
       IN IF exists(fs, src)
          THEN LET r == copy_with_structure(fs, src, dest_root, project_root)
               IN /\ fs' = r.f
                  /\ err' = r.err
                  /\ IF r.err = "none"
                     THEN /\ out' = Append(out, Copied(src))
                          /\ i' = i + 1
                          /\ pc' = "loop"
                     ELSE /\ pc' = "error"
                          /\ UNCHANGED <<out, i>>
          ELSE /\ out' = Append(out, Skipped(src))
               /\ i' = i + 1
               /\ UNCHANGED <<fs, err, pc>>
    /\ UNCHANGED <<fs0, sources, run>>
    /\ UNCHANGED frvars

\* line 47: the completion notice
Complete ==
    /\ pc = "loop"
    /\ i = Len(sources)
    /\ out' = Append(out, AllDone(dest_root))
    /\ pc' = "done"
    /\ UNCHANGED <<fs, fs0, sources, i, err, run>>
    /\ UNCHANGED frvars

\* lines 49-50: the script is run a second time, on what the first run left
Rerun ==
    /\ pc \in {"done", "error"}
    /\ run = 1
    /\ run' = 2
    /\ fs0' = fs
    /\ pc' = "start"
    /\ i' = 0
    /\ out' = <<>>
    /\ err' = "none"
    /\ UNCHANGED <<fs, sources>>
    /\ UNCHANGED frvars

NextFC == EnsureDest \/ ProcessSource \/ Complete \/ Rerun

SpecFC == InitFC /\ [][NextFC]_vars

(***************************************************************************)
(* packages/backend/check-fights.py                                        *)
(*                                                                         *)
(* A JSON object is a function from its keys; a flag is one of the JSON    *)
(* values true, false and null; a name is a number that tells the record   *)
(* and the field it was read from.                                         *)
(***************************************************************************)
MainCard == 5

Min(a, b) == IF a < b THEN a ELSE b

Fighter(first, last) == [firstName |-> first, lastName |-> last]

Record(idx, hs, ic) ==
    [hasStarted |-> hs, isComplete |-> ic,
     fighter1 |-> Fighter(10 * idx + 1, 10 * idx + 2),
     fighter2 |-> Fighter(10 * idx + 3, 10 * idx + 4)]

Without(d, key) == [x \in DOMAIN d \ {key} |-> d[x]]

\* the record d without the field at the key path
Lacking(d, path) ==
    IF Len(path) = 1 THEN Without(d, path[1])
    ELSE [d EXCEPT ![path[1]] = Without(d[path[1]], path[2])]

Fields ==
    { <<"hasStarted">>, <<"isComplete">>, <<"fighter1">>, <<"fighter2">>,
      <<"fighter1", "firstName">>, <<"fighter1", "lastName">>,
      <<"fighter2", "firstName">>, <<"fighter2", "lastName">> }

\* <<hasStarted, isComplete>>
Flags == { <<"true", "false">>, <<"true", "true">>, <<"false", "false">> }
OddFlags == { <<"true", "null">>, <<"null", "true">> }

ArraysOf(flagset) ==
    UNION { { [idx \in 1..n |-> Record(idx, fl[idx][1], fl[idx][2])] :
                fl \in [1..n -> flagset] } : n \in 0..MaxFights }

\* arrays whose records hold every field
WellFormedArrays == ArraysOf(Flags) \cup ArraysOf(OddFlags)

\* arrays whose records all hold the same flags
UniformArrays ==
    { [idx \in 1..n |-> Record(idx, fl[1], fl[2])] :
        n \in 0..MaxFights, fl \in Flags \cup OddFlags \cup { <<"false", "true">> } }

\* arrays with one record that lacks one field
DefectiveArrays ==
    UNION { { [a EXCEPT ![pos[1]] = Lacking(a[pos[1]], pos[2])] :
                pos \in (1..Len(a)) \X Fields } : a \in UniformArrays }

Has(d, key) == key \in DOMAIN d

\* Python's truth value of a JSON value
Truthy(v) == v = "true"

\* Python's str() of a JSON value
PyStr(v) == CASE v = "true" -> "True" [] v = "false" -> "False" [] OTHER -> "None"

Value(v) == [err |-> "none", val |-> v]
KeyError == [err |-> "KeyError", val |-> 0]

\* mutant of StartedCount: the count is taken over the main card only
StartedCountFirstFive(a) ==
    IF \E idx \in 1..Len(a) : ~Has(a[idx], "hasStarted") THEN KeyError
    ELSE Value(Len(SelectSeq(SubSeq(a, 1, Min(MainCard, Len(a))),
                             LAMBDA f : Truthy(f.hasStarted))))

\* line 9: len([f for f in fights if f['hasStarted']])
StartedCount(a) ==
    IF \E idx \in 1..Len(a) : ~Has(a[idx], "hasStarted") THEN KeyError
    ELSE Value(Len(SelectSeq(a, LAMBDA f : Truthy(f.hasStarted))))

\* line 10: len([f for f in fights if f['isComplete']])
CompleteCount(a) ==
    IF \E idx \in 1..Len(a) : ~Has(a[idx], "isComplete") THEN KeyError
    ELSE Value(Len(SelectSeq(a, LAMBDA f : Truthy(f.isComplete))))

\* mutant of LiveCount: every fight that is not complete counts as live
LiveCountNotComplete(a) ==
    IF \E idx \in 1..Len(a) : ~Has(a[idx], "hasStarted") \/ ~Has(a[idx], "isComplete")
    THEN KeyError
    ELSE Value(Len(SelectSeq(a, LAMBDA f : ~Truthy(f.isComplete))))

\* line 11: len([f for f in fights if f['hasStarted'] and not f['isComplete']])
LiveCount(a) ==
    IF \E idx \in 1..Len(a) :
           \/ ~Has(a[idx], "hasStarted")
           \/ Truthy(a[idx].hasStarted) /\ ~Has(a[idx], "isComplete")
    THEN KeyError
    ELSE Value(Len(SelectSeq(a, LAMBDA f : Truthy(f.hasStarted) /\ ~Truthy(f.isComplete))))

\* mutant of FirstFive: the slice is dropped
FirstFiveWholeArray(a) == a

\* line 13: fights[:5]
FirstFive(a) == SubSeq(a, 1, Min(MainCard, Len(a)))

\* mutant of CardLine: a missing key reads as None (dict.get) instead of raising
CardLineLenient(f) ==
    LET flag(d, key) == IF Has(d, key) THEN PyStr(d[key]) ELSE "None"
        name(who, key) == IF Has(f, who) /\ Has(f[who], key) THEN f[who][key] ELSE -1
    IN Value([label |-> "card",
              first1 |-> name("fighter1", "firstName"), last1 |-> name("fighter1", "lastName"),
              first2 |-> name("fighter2", "firstName"), last2 |-> name("fighter2", "lastName"),
              hasStarted |-> flag(f, "hasStarted"), complete |-> flag(f, "isComplete")])

\* line 14: the f-string of one main-card line
CardLine(f) ==
    IF \/ ~Has(f, "fighter1") \/ ~Has(f.fighter1, "firstName") \/ ~Has(f.fighter1, "lastName")
       \/ ~Has(f, "fighter2") \/ ~Has(f.fighter2, "firstName") \/ ~Has(f.fighter2, "lastName")
       \/ ~Has(f, "hasStarted") \/ ~Has(f, "isComplete")
    THEN KeyError
    ELSE Value([label |-> "card",
                first1 |-> f.fighter1.firstName, last1 |-> f.fighter1.lastName,
                first2 |-> f.fighter2.firstName, last2 |-> f.fighter2.lastName,
                hasStarted |-> PyStr(f.hasStarted), complete |-> PyStr(f.isComplete)])

Text(label) == [label |-> label]
CountLine(label, n) == [label |-> label, n |-> n]

InitFC0 ==
    /\ fs = [p \in Paths |-> "absent"]
    /\ fs0 = [p \in Paths |-> "absent"]
    /\ sources = <<>>
    /\ pc = "idle"
    /\ i = 0
    /\ out = <<>>
    /\ err = "none"
    /\ run = 1

InitFR ==
    /\ fights \in WellFormedArrays \cup DefectiveArrays
    /\ rpc = "l7"
    /\ k = 0
    /\ rout = <<>>
    /\ rerr = "none"
    /\ InitFC0

\* a print statement: the line is written, or the exception ends the program
Print_(line, next) ==
    /\ IF line.err = "none"
       THEN /\ rout' = Append(rout, line.val)
            /\ rpc' = next
            /\ rerr' = "none"
       ELSE /\ rpc' = "error"
            /\ rerr' = line.err
            /\ rout' = rout
    /\ UNCHANGED <<fights, k>>
    /\ UNCHANGED fcvars

\* line 7
PrintHeader == rpc = "l7" /\ Print_(Value(Text("Fight statuses in database:")), "l8")

\* line 8
PrintTotal == rpc = "l8" /\ Print_(Value(CountLine("Total fights", Len(fights))), "l9")

\* line 9
PrintStarted ==
    /\ rpc = "l9"
    /\ LET c == StartedCount(fights)
       IN Print_(IF c.err = "none" THEN Value(CountLine("Has started", c.val)) ELSE c, "l10")

\* line 10
PrintComplete ==
    /\ rpc = "l10"
    /\ LET c == CompleteCount(fights)
       IN Print_(IF c.err = "none" THEN Value(CountLine("Complete", c.val)) ELSE c, "l11")

\* line 11
PrintLive ==
    /\ rpc = "l11"
    /\ LET c == LiveCount(fights)
       IN Print_(IF c.err = "none"
                 THEN Value(CountLine("Live (started but not complete)", c.val))
                 ELSE c, "l12")

\* line 12
PrintMainCard == rpc = "l12" /\ Print_(Value(Text("Main card (first 5):")), "l13")

\* lines 13-14: one iteration of the for loop
PrintFight ==
    /\ rpc = "l13"
    /\ k < Len(FirstFive(fights))
    /\ LET line == CardLine(FirstFive(fights)[k + 1])
       IN IF line.err = "none"
          THEN /\ rout' = Append(rout, line.val)
               /\ k' = k + 1
               /\ UNCHANGED <<rpc, rerr>>
          ELSE /\ rpc' = "error"
               /\ rerr' = line.err
               /\ UNCHANGED <<rout, k>>
    /\ UNCHANGED fights
    /\ UNCHANGED fcvars

\* the for loop is exhausted and the program ends with status 0
Exit ==
    /\ rpc = "l13"
    /\ k = Len(FirstFive(fights))
    /\ rpc' = "done"
    /\ UNCHANGED <<fights, k, rout, rerr>>
    /\ UNCHANGED fcvars

NextFR ==
    \/ PrintHeader \/ PrintTotal \/ PrintStarted \/ PrintComplete \/ PrintLive
    \/ PrintMainCard \/ PrintFight \/ Exit

SpecFR == InitFR /\ [][NextFR]_vars

(***************************************************************************)
(* What the report should say, stated from the fights array alone.         *)
(***************************************************************************)
HasAllFields(f) ==
    \A path \in Fields :
        /\ path[1] \in DOMAIN f
        /\ Len(path) = 2 => path[2] \in DOMAIN f[path[1]]

WellFormedInput == \A idx \in 1..Len(fights) : HasAllFields(fights[idx])

FlagOf(f, key) == IF key \in DOMAIN f THEN f[key] ELSE "missing"
NameOf(f, who, key) ==
    IF who \in DOMAIN f /\ key \in DOMAIN f[who] THEN f[who][key] ELSE -1

IsTruthy(v) == v \notin {"false", "null", "missing"}
TextOf(v) == IF v = "true" THEN "True" ELSE IF v = "false" THEN "False" ELSE "None"

NumStarted == Cardinality({ idx \in 1..Len(fights) : IsTruthy(FlagOf(fights[idx], "hasStarted")) })
NumComplete == Cardinality({ idx \in 1..Len(fights) : IsTruthy(FlagOf(fights[idx], "isComplete")) })
NumLive ==
    Cardinality({ idx \in 1..Len(fights) :
                    /\ IsTruthy(FlagOf(fights[idx], "hasStarted"))
                    /\ ~IsTruthy(FlagOf(fights[idx], "isComplete")) })

ExpectedCard(f) ==
    [label |-> "card",
     first1 |-> NameOf(f, "fighter1", "firstName"), last1 |-> NameOf(f, "fighter1", "lastName"),
     first2 |-> NameOf(f, "fighter2", "firstName"), last2 |-> NameOf(f, "fighter2", "lastName"),
     hasStarted |-> TextOf(FlagOf(f, "hasStarted")), complete |-> TextOf(FlagOf(f, "isComplete"))]

ExpectedLine(j) ==
    CASE j = 1 -> [label |-> "Fight statuses in database:"]
      [] j = 2 -> [label |-> "Total fights", n |-> Len(fights)]
      [] j = 3 -> [label |-> "Has started", n |-> NumStarted]
      [] j = 4 -> [label |-> "Complete", n |-> NumComplete]
      [] j = 5 -> [label |-> "Live (started but not complete)", n |-> NumLive]
      [] j = 6 -> [label |-> "Main card (first 5):"]
      [] OTHER -> IF j - 6 <= Len(fights) THEN ExpectedCard(fights[j - 6])
                  ELSE [label |-> "none"]

\* C4: whenever the four counts have been computed and reported,
\* started >= live, total >= started and total >= complete.
C4_CountOrder ==
    Len(rout) >= 5 =>
        /\ rout[3].n >= rout[5].n
        /\ rout[2].n >= rout[3].n
        /\ rout[2].n >= rout[4].n

C4_Witness ==
    /\ Len(rout) >= 5
    /\ rout[5].n >= 1
    /\ rout[3].n > rout[5].n
    /\ rout[2].n > rout[3].n
    /\ rout[4].n >= 1

\* C5: for a well-formed array of length n the main card holds exactly
\* min(5, n) lines, the lines of the first five records in array order, and
\* no record at index 5 or beyond ever produces one.
C5_MainCardLines ==
    WellFormedInput =>
        /\ Len(rout) <= 6 + Min(5, Len(fights))
        /\ \A j \in 1..(Len(rout) - 6) : rout[6 + j] = ExpectedCard(fights[j])
        /\ rpc = "done" => Len(rout) = 6 + Min(5, Len(fights))

C5_Witness ==
    /\ WellFormedInput
    /\ rpc = "done"
    /\ Len(fights) = 7
    /\ Len(rout) = 11

\* C6: for a well-formed array the four reported counts are taken over the
\* whole array: total is its length, started the number of records with a
\* truthy hasStarted, complete the number with a truthy isComplete, live the
\* number with a truthy hasStarted and a falsy isComplete (all 0 for <<>>).
C6_CountsOverFullArray ==
    WellFormedInput =>
        /\ Len(rout) >= 2 => rout[2] = [label |-> "Total fights", n |-> Len(fights)]
        /\ Len(rout) >= 3 => rout[3] = [label |-> "Has started", n |-> NumStarted]
        /\ Len(rout) >= 4 => rout[4] = [label |-> "Complete", n |-> NumComplete]
        /\ Len(rout) >= 5 =>
               rout[5] = [label |-> "Live (started but not complete)", n |-> NumLive]
        /\ rpc = "done" => Len(rout) >= 5
        /\ (fights = <<>> /\ Len(rout) >= 5) =>
               \A j \in 2..5 : rout[j].n = 0

C6_Witness ==
    /\ WellFormedInput
    /\ rpc = "done"
    /\ \E idx \in (MainCard + 1)..Len(fights) :
           /\ IsTruthy(fights[idx].hasStarted)
           /\ ~IsTruthy(fights[idx].isComplete)
    /\ rout[5].n = 1
    /\ rout[4].n >= 1

\* the records among the first five that lack an expected field
FailingRecords == { idx \in 1..Min(5, Len(fights)) : ~HasAllFields(fights[idx]) }

\* C10: if one of the first five records lacks an expected field, the program
\* ends in the KeyError state and in no other; what it has written is a prefix
\* of the normal report that stops before the failing record's main-card
\* line, and nothing is written after the failure.
C10_MissingFieldIsFatal ==
    FailingRecords # {} =>
        /\ rpc # "done"
        /\ \A idx \in FailingRecords : Len(rout) < 6 + idx
        /\ \A j \in 1..Len(rout) : rout[j] = ExpectedLine(j)
        /\ rpc = "error" => (rerr = "KeyError" /\ ~ENABLED NextFR)
        /\ ~ENABLED NextFR => rpc = "error"

C10_Witness ==
    /\ FailingRecords # {}
    /\ rpc = "error"
    /\ rerr = "KeyError"
    /\ Len(rout) >= 8

(***************************************************************************)
(* What the File Collector should leave, stated from the paths alone.      *)
(***************************************************************************)
InRoot(p) == Len(p) >= 1 /\ p[1] = project_root[1]

\* the source path with the project-root prefix stripped, under the destination
ReRooted(p) == dest_root \o SubSeq(p, Len(project_root) + 1, Len(p))

\* the file, or the directory with all its contents, at s is also at d
RECURSIVE Mirrored(_, _, _)
Mirrored(f, s, d) ==
    IF f[s] = "dir"
    THEN /\ f[d] = "dir"
         /\ \A c \in { q \in SrcPaths : Parent(q) = s /\ f[q] # "absent" } :
                Mirrored(f, c, d \o <<Name(c)>>)
    ELSE f[d] = f[s]

\* C1: after a run that completes normally, every source that existed as a
\* regular file or as a directory is present, with all its contents, at its
\* re-rooted path under the destination root.
C1_ExistingSourcesCopied ==
    pc = "done" =>
        \A idx \in 1..Len(sources) :
            (InRoot(sources[idx]) /\ fs[sources[idx]] \in {"dir"} \cup Contents)
                => Mirrored(fs, sources[idx], ReRooted(sources[idx]))

\* C2: every missing source yields exactly one skip notice naming it, and the
\* run leaves no artifact at its re-rooted path: what is there after the run
\* is what was there before it.
C2_MissingSourcesSkipped ==
    pc = "done" =>
        /\ Len(out) = Len(sources) + 1
        /\ \A idx \in 1..Len(sources) :
               fs[sources[idx]] = "absent" =>
                   /\ out[idx] = [kind |-> "skipped", path |-> sources[idx]]
                   /\ InRoot(sources[idx]) =>
                          fs[ReRooted(sources[idx])] = fs0[ReRooted(sources[idx])]

\* C3: a second run on what the first run left, with the same source list
\* and an unchanged source tree, leaves the filesystem as the first run did.
C3_SecondRunChangesNothing ==
    (run = 2 /\ pc \in {"done", "error"}) => fs = fs0

C3_Witness ==
    /\ run = 2
    /\ pc = "done"
    /\ \E j \in 1..Len(sources) :
           /\ out[j].kind = "copied"
           /\ fs[sources[j]] = "dir"
           /\ \E q \in SrcPaths : Parent(q) = sources[j] /\ fs[q] = "f1"
    /\ \E j \in 1..Len(sources) : out[j].kind = "copied" /\ fs[sources[j]] = "f1"

\* C7: a missing source does not end the run.  The notices follow the source
\* list, one per source, copied or skipped; the loop stops early only at a
\* source that exists; the completion notice is written once, last, after
\* every source has its notice, and can be written once every source has.
C7_MissingDoesNotAbort ==
    /\ Len(out) = i + (IF pc = "done" THEN 1 ELSE 0)
    /\ \A j \in 1..i :
           out[j] = [kind |-> IF fs[sources[j]] = "absent" THEN "skipped" ELSE "copied",
                     path |-> sources[j]]
    /\ \A j \in 1..Len(out) :
           out[j].kind = "done" => (pc = "done" /\ j = Len(sources) + 1)
    /\ pc = "done" =>
           (i = Len(sources) /\ out[Len(out)] = [kind |-> "done", path |-> dest_root])
    /\ (pc = "error" /\ fs[dest_root] = "dir") =>
           (i < Len(sources) /\ fs[sources[i + 1]] # "absent")
    /\ pc = "loop" => (i < Len(sources) \/ ENABLED Complete)

C7_Witness ==
    /\ pc = "done"
    /\ Len(sources) >= 2
    /\ out[1].kind = "skipped"
    /\ out[2].kind = "copied"
    /\ out[Len(out)].kind = "done"

\* C8: a step that copies a directory source leaves every regular file of the
\* destination whose path is not the re-rooted path of a copied source file
\* as it was, and gives the others the content of the source file.
C8_DirectoryMerge ==
    [][ (/\ pc = "loop"
         /\ i < Len(sources)
         /\ i' = i + 1
         /\ InRoot(sources[i + 1])
         /\ fs[sources[i + 1]] = "dir")
        => \A p \in DestPaths :
               fs[p] \in Contents =>
                   LET colliding == { q \in SrcPaths :
                                        /\ IsPrefix(sources[i + 1], q)
                                        /\ fs[q] \in Contents
                                        /\ ReRooted(q) = p }
                   IN IF colliding = {} THEN fs'[p] = fs[p]
                      ELSE \A q \in colliding : fs'[p] = fs[q] ]_vars

\* C9 as stated: a listed source outside the project root is never passed:
\* no later source is processed and the run does not complete.
C9_OutsideRootIsFatal ==
    \A idx \in 1..Len(sources) :
        ~InRoot(sources[idx]) => (i < idx /\ pc # "done")

\* C9 as amended: a listed source outside the project root that exists is
\* never passed: the run ends there with the uncaught ValueError, no later
\* source is processed and no completion notice is written; one that does
\* not exist is skipped with a notice.
C9_ExistingOutsideRootIsFatal ==
    \A idx \in 1..Len(sources) :
        ~InRoot(sources[idx]) =>
            IF fs[sources[idx]] # "absent"
            THEN /\ i < idx
                 /\ pc # "done"
                 /\ \A j \in 1..Len(out) : out[j].kind # "done"
                 /\ (pc = "error" /\ i = idx - 1 /\ fs[dest_root] = "dir") => err = "ValueError"
                 /\ pc = "error" => ~ENABLED (EnsureDest \/ ProcessSource \/ Complete)
            ELSE idx <= i => out[idx] = [kind |-> "skipped", path |-> sources[idx]]

C9_Witness ==
    /\ pc = "error"
    /\ err = "ValueError"
    /\ i = 1
    /\ Len(sources) = 2
    /\ ~InRoot(sources[2])
    /\ fs = fs0

====
